---- MODULE Spec2Model ----
(***************************************************************************)
(* A model of boun_course_scraper.py: the field parsers, the row loop of   *)
(* scrape_boun_schedule with its "last course key" pointer, the handling   *)
(* of per-department errors, the browser session's life cycle and the      *)
(* __main__ pipeline (fetch semesters, prompt, scrape, save).              *)
(*                                                                         *)
(* A Python str is modelled as a sequence of one-character strings, so     *)
(* "MTh" is <<"M","T","h">>; a token such as "Th" or "10" is the sequence  *)
(* of its characters.                                                      *)
(***************************************************************************)
EXTENDS Integers, Sequences, FiniteSets, TLC

VARIABLES
    pc,               \* position of the __main__ pipeline / scrape loop
    driver,           \* the local `driver`: a session's number, 0 for None
    sessions,         \* number of browser sessions acquired so far
    live,             \* sessions acquired and not yet quit
    quit_count,       \* per session: number of driver.quit() calls
    use_after_quit,   \* TRUE once an operation was issued on a quit session
    exc,              \* the exception propagating through a try/finally
    semesters,        \* result of fetch_semesters_from_website
    selected_semester,\* result of prompt_semester
    results,          \* the dict `results` of scrape_boun_schedule
    last_course_key,  \* the local `last_course_key`; <<>> is None (no key is "")
    dept_code,        \* the local `dept_code` (Unbound before first binding)
    depts_left,       \* department urls not yet visited
    rows_done,        \* rows handed to the row loop so far in this run
    cur_row,          \* Some(row handled by the last row-loop iteration)
    new_in_dept,      \* TRUE once this department page had a new-record row
    row_log,          \* rows handled so far (kept by the key scenario only)
    data,             \* Some(value returned by scrape_boun_schedule)
    file,             \* Some(the JSON file written by save_json)
    messages,         \* messages printed so far
    traceback,        \* TRUE when the program died of an uncaught exception
    errs,             \* kinds of failure injected by the environment so far
    arg,              \* argument of the pure-function call under check
    ret               \* Some(its result)

mainVars == <<pc, driver, sessions, live, quit_count, use_after_quit, exc,
              semesters, selected_semester, results, last_course_key,
              dept_code, depts_left, rows_done, cur_row, new_in_dept,
              row_log, data, file, messages, traceback, errs>>
vars == <<mainVars, arg, ret>>

\* A value that may be absent is a sequence: <<>> when absent, <<v>> when v.
None == "None"
Unbound == "Unbound"
Absent == <<>>
Some(v) == <<v>>

-----------------------------------------------------------------------------
(* Bounds of the model.                                                    *)

MaxDepts == 2
MaxRowsTotal == 2
MaxLen == 4
MaxKeyRows == 2

-----------------------------------------------------------------------------
(* Strings.                                                                *)

\* str.strip() with no argument strips these (the ASCII whitespace the
\* model's alphabets contain).
IsWhitespace(c) == c \in {" ", "\n", "\t"}

RECURSIVE LStrip(_)
LStrip(s) ==
    IF s = <<>> THEN <<>>
    ELSE IF IsWhitespace(Head(s)) THEN LStrip(Tail(s)) ELSE s

RECURSIVE RStrip(_)
RStrip(s) ==
    IF s = <<>> THEN <<>>
    ELSE IF IsWhitespace(s[Len(s)]) THEN RStrip(SubSeq(s, 1, Len(s) - 1)) ELSE s

Strip(s) == RStrip(LStrip(s))

\* `not s or not s.strip()`
IsBlank(s) == s = <<>> \/ Strip(s) = <<>>

\* s.replace(" ", ""): only the space character is removed.
IsNotSpaceChar(c) == c # " "
ReplaceSpaces(s) == SelectSeq(s, IsNotSpaceChar)

\* str.upper() on the letters the model's alphabets contain.
UpperChar(c) ==
    CASE c = "a" -> "A"
      [] c = "b" -> "B"
      [] c = "l" -> "L"
      [] c = "p" -> "P"
      [] c = "s" -> "S"
      [] OTHER -> c
Upper(s) == [i \in 1..Len(s) |-> UpperChar(s[i])]

\* `sub in s`
Contains(s, sub) ==
    \E i \in 1..(Len(s) - Len(sub) + 1) : SubSeq(s, i, i + Len(sub) - 1) = sub

MatchesAt(s, i, lit) ==
    /\ i + Len(lit) - 1 <= Len(s)
    /\ SubSeq(s, i, i + Len(lit) - 1) = lit

\* s.split(sep) for a one-character separator.
RECURSIVE SplitFrom(_, _, _)
SplitFrom(s, sep, piece) ==
    IF s = <<>> THEN <<piece>>
    ELSE IF Head(s) = sep THEN <<piece>> \o SplitFrom(Tail(s), sep, <<>>)
    ELSE SplitFrom(Tail(s), sep, Append(piece, Head(s)))
Split(s, sep) == SplitFrom(s, sep, <<>>)

IsNonEmpty(x) == x # <<>>

RECURSIVE Flatten(_)
Flatten(ss) == IF ss = <<>> THEN <<>> ELSE Head(ss) \o Flatten(Tail(ss))

\* All sequences over alphabet A of length at most n.
RECURSIVE SeqsUpTo(_, _)
SeqsUpTo(A, n) ==
    IF n = 0 THEN {<<>>}
    ELSE LET shorter == SeqsUpTo(A, n - 1)
         IN  shorter \cup {Append(s, c) : s \in shorter, c \in A}

-----------------------------------------------------------------------------
(* re.findall(pattern, s) for a pattern that is one group of literal       *)
(* alternatives: at each position the alternatives are tried in the order  *)
(* written, the first that matches is taken and the scan goes on after     *)
(* it; where none matches the scan moves on by one character.              *)

FirstMatch(alts, s, i) ==
    LET hits == {k \in 1..Len(alts) : MatchesAt(s, i, alts[k])}
    IN  IF hits = {} THEN 0
        ELSE CHOOSE k \in hits : \A j \in hits : k <= j

RECURSIVE FindAllFrom(_, _, _)
FindAllFrom(alts, s, i) ==
    IF i > Len(s) THEN <<>>
    ELSE LET k == FirstMatch(alts, s, i)
         IN  IF k = 0 THEN FindAllFrom(alts, s, i + 1)
             ELSE <<alts[k]>> \o FindAllFrom(alts, s, i + Len(alts[k]))

FindAll(alts, s) == FindAllFrom(alts, s, 1)

-----------------------------------------------------------------------------
(* Field parsers.                                                          *)

Digits == <<"0", "1", "2", "3", "4", "5", "6", "7", "8", "9">>
IsDigit(c) == \E k \in 1..Len(Digits) : Digits[k] = c
DigitValue(c) == (CHOOSE k \in 1..Len(Digits) : Digits[k] = c) - 1

RECURSIVE DecimalValue(_)
DecimalValue(s) ==
    IF s = <<>> THEN 0
    ELSE 10 * DecimalValue(SubSeq(s, 1, Len(s) - 1)) + DigitValue(s[Len(s)])

IsDecimal(s) == s # <<>> /\ \A i \in 1..Len(s) : IsDigit(s[i])

\* int(credit_str), 0 on ValueError.  The model's cells hold digits and
\* letters only, for which int() succeeds exactly on a run of digits.
parse_credits(credit_str) ==
    IF IsDecimal(credit_str) THEN DecimalValue(credit_str) ELSE 0

\* float(ects_str), 0.0 on ValueError.  The model's cells hold no ".", so
\* the float is a whole number and is written as that number.
parse_ects(ects_str) ==
    IF IsDecimal(ects_str) THEN DecimalValue(ects_str) ELSE 0

parse_list_of_strings(s) ==
    IF IsBlank(s) THEN <<>>
    ELSE SelectSeq(Split(Strip(s), "\n"), IsNonEmpty)

\* A pattern that lists T before Th: r'(T|Th|W|M|F|S)'.
DaysPattern_TFirst == << <<"T">>, <<"T", "h">>, <<"W">>, <<"M">>, <<"F">>, <<"S">> >>

\* pattern r'(Th|W|M|F|T|S)'
DaysPattern == << <<"T", "h">>, <<"W">>, <<"M">>, <<"F">>, <<"T">>, <<"S">> >>

parse_days(days_str) ==
    IF IsBlank(days_str) THEN <<>>
    ELSE FindAll(DaysPattern, Strip(days_str))

\* A pattern that lists the single digits first: r'([1-9]|10|11)'.
HoursPattern_DigitFirst ==
    << <<"1">>, <<"2">>, <<"3">>, <<"4">>, <<"5">>, <<"6">>, <<"7">>, <<"8">>, <<"9">>,
       <<"1", "0">>, <<"1", "1">> >>

\* pattern r'(10|11|[1-9])'; the class [1-9] is the alternation 1|2|...|9.
HoursPattern ==
    << <<"1", "0">>, <<"1", "1">>,
       <<"1">>, <<"2">>, <<"3">>, <<"4">>, <<"5">>, <<"6">>, <<"7">>, <<"8">>, <<"9">> >>

parse_hours(hours_str) ==
    IF IsBlank(hours_str) THEN <<>>
    ELSE FindAll(HoursPattern, Strip(hours_str))

-----------------------------------------------------------------------------
(* Table rows.  A row is the list of its cells' texts (c0..c9), the number *)
(* of its cells, and the texts of the <span> children of the rooms cell.   *)

Online == <<"O", "n", "l", "i", "n", "e">>
NA == <<"N", "/", "A">>

BlankHead ==
    [c0 |-> <<>>, c1 |-> <<>>, c2 |-> <<>>, c3 |-> <<>>, c4 |-> <<>>,
     c5 |-> <<>>, c6 |-> <<>>]

RowHeads ==
    { BlankHead,
      [c0 |-> <<"X">>, c1 |-> <<" ", "A">>, c2 |-> <<"I">>, c3 |-> <<"3">>,
       c4 |-> <<"6">>, c5 |-> <<>>, c6 |-> <<"D">>],
      [c0 |-> <<"X">>, c1 |-> <<"B">>, c2 |-> <<"J">>, c3 |-> <<"x">>,
       c4 |-> <<"x">>, c5 |-> <<"C", "\n", "E">>, c6 |-> <<"D">>],
      [c0 |-> <<"Y">>, c1 |-> <<"A">>, c2 |-> <<"L", "a", "b">>, c3 |-> <<"1">>,
       c4 |-> <<"2">>, c5 |-> <<>>, c6 |-> <<>>] }

RowTails ==
    { [c7 |-> <<>>, c8 |-> <<>>, c9 |-> <<>>, spans |-> <<>>],
      [c7 |-> <<>>, c8 |-> <<>>, c9 |-> <<>>, spans |-> << <<" ">> >>],
      [c7 |-> <<"F">>, c8 |-> <<>>, c9 |-> <<>>, spans |-> << <<"Z">>, <<>> >>],
      [c7 |-> <<"T", "T", "h">>, c8 |-> <<"1", "0", "1">>, c9 |-> <<"R", "\n", "Q">>,
       spans |-> <<>>],
      [c7 |-> <<"M">>, c8 |-> <<"9">>, c9 |-> Online, spans |-> <<>>] }

MkRow(n, h, t) ==
    [ncells |-> n, c0 |-> h.c0, c1 |-> h.c1, c2 |-> h.c2, c3 |-> h.c3,
     c4 |-> h.c4, c5 |-> h.c5, c6 |-> h.c6, c7 |-> t.c7, c8 |-> t.c8,
     c9 |-> t.c9, spans |-> t.spans]

ShortRow ==
    MkRow(9, [c0 |-> <<"X">>, c1 |-> <<>>, c2 |-> <<"I">>, c3 |-> <<>>,
              c4 |-> <<>>, c5 |-> <<>>, c6 |-> <<>>],
             [c7 |-> <<"M">>, c8 |-> <<"9">>, c9 |-> <<>>, spans |-> <<>>])

Rows == {MkRow(10, h, t) : h \in RowHeads, t \in RowTails} \cup {ShortRow}

-----------------------------------------------------------------------------
(* The body of the row loop.                                               *)

StripAll(ss) == [i \in 1..Len(ss) |-> Strip(ss[i])]

\* [span.text.strip() for span in spans if span.text.strip()]
SpanTexts(spans) == SelectSeq(StripAll(spans), IsNonEmpty)

\* A key that never takes the section suffix.
UniqueKey_NoSection(course_code_raw, section_text, course_name_raw) ==
    ReplaceSpaces(course_code_raw)

\* Lines 181-191: the key of a new course entry.
UniqueKey(course_code_raw, section_text, course_name_raw) ==
    LET section_part == ReplaceSpaces(Strip(section_text))
        base == ReplaceSpaces(course_code_raw)
        marked == \/ Contains(Upper(course_name_raw), <<"L", "A", "B">>)
                  \/ Contains(Upper(course_name_raw), <<"P", ".", "S", ".">>)
    IN  IF marked /\ section_part # <<>>
        THEN base \o <<".">> \o section_part
        ELSE base

\* Lines 209-222: rooms of a new course entry.
NewRooms(row) ==
    LET room_text == Strip(row.c9)
    IN  IF Contains(room_text, Online) THEN <<Online>>
        ELSE IF room_text # <<>> THEN parse_list_of_strings(room_text)
        ELSE IF row.spans # <<>> THEN SpanTexts(row.spans)
        ELSE <<NA>>

\* Lines 163-175: what a continuation row appends to rooms.
MoreRooms(row) ==
    LET room_text == Strip(row.c9)
    IN  IF Contains(room_text, Online) THEN <<Online>>
        ELSE IF room_text # <<>> THEN parse_list_of_strings(room_text)
        ELSE IF row.spans # <<>> THEN SpanTexts(row.spans)
        ELSE <<>>

\* Lines 193-222: course_data.  Optional fields are keys of the dict only
\* when their cell holds text.
WithField(rec, name, present, value) ==
    IF present
    THEN [f \in DOMAIN rec \cup {name} |-> IF f = name THEN value ELSE rec[f]]
    ELSE rec

CourseData(row) ==
    LET base == [code |-> Strip(row.c0),
                 name |-> Strip(row.c2),
                 credits |-> parse_credits(Strip(row.c3)),
                 ects |-> parse_ects(Strip(row.c4)),
                 instructor |-> Strip(row.c6),
                 rooms |-> NewRooms(row)]
        r1 == WithField(base, "requiredForDept", Strip(row.c5) # <<>>,
                        parse_list_of_strings(row.c5))
        r2 == WithField(r1, "days", Strip(row.c7) # <<>>, parse_days(row.c7))
    IN  WithField(r2, "hours", Strip(row.c8) # <<>>, parse_hours(row.c8))

\* results[key] = value
DictSet(d, key, value) ==
    [k \in DOMAIN d \cup {key} |-> IF k = key THEN value ELSE d[k]]

\* Lines 157-176: a continuation row.  results[key]["days"] raises KeyError
\* when the record has no "days"; what was extended before stays extended.
Continuation(res, key, row) ==
    LET rec0 == res[key]
        wantDays == Strip(row.c7) # <<>>
        errDays == wantDays /\ "days" \notin DOMAIN rec0
        rec1 == IF wantDays /\ ~errDays
                THEN [rec0 EXCEPT !.days = @ \o parse_days(row.c7)]
                ELSE rec0
        wantHours == Strip(row.c8) # <<>>
        errHours == ~errDays /\ wantHours /\ "hours" \notin DOMAIN rec1
        rec2 == IF ~errDays /\ wantHours /\ ~errHours
                THEN [rec1 EXCEPT !.hours = @ \o parse_hours(row.c8)]
                ELSE rec1
        rec3 == IF errDays \/ errHours
                THEN rec2
                ELSE [rec2 EXCEPT !.rooms = @ \o MoreRooms(row)]
    IN  [results |-> [res EXCEPT ![key] = rec3],
         key |-> key,
         raised |-> errDays \/ errHours]

\* Lines 149-224: one iteration of `for row in rows`.
RowOutcome(res, last, row) ==
    LET course_code_raw == Strip(row.c0)
    IN  IF row.ncells < 10
        THEN [results |-> res, key |-> last, raised |-> FALSE]
        ELSE IF course_code_raw = <<>> /\ last # <<>> /\ last \in DOMAIN res
        THEN Continuation(res, last, row)
        ELSE IF course_code_raw = <<>>
        THEN [results |-> res, key |-> last, raised |-> FALSE]
        ELSE LET unique_key == UniqueKey(course_code_raw, row.c1, Strip(row.c2))
             IN  [results |-> DictSet(res, unique_key, CourseData(row)),
                  key |-> unique_key,
                  raised |-> FALSE]

IsNewRow(row) == row.ncells >= 10 /\ Strip(row.c0) # <<>>
IsBlankRow(row) == row.ncells >= 10 /\ Strip(row.c0) = <<>>

-----------------------------------------------------------------------------
(* save_json sorts the keys as Python sorts str: by code point.            *)

CodePoint(c) ==
    CASE c = "\t" -> 9
      [] c = "\n" -> 10
      [] c = " " -> 32
      [] c = "." -> 46
      [] c = "A" -> 65
      [] c = "B" -> 66
      [] c = "C" -> 67
      [] c = "X" -> 88
      [] c = "Y" -> 89

RECURSIVE StrLess(_, _)
StrLess(a, b) ==
    IF b = <<>> THEN FALSE
    ELSE IF a = <<>> THEN TRUE
    ELSE IF Head(a) # Head(b) THEN CodePoint(Head(a)) < CodePoint(Head(b))
    ELSE StrLess(Tail(a), Tail(b))

RECURSIVE Sorted(_)
Sorted(S) ==
    IF S = {} THEN <<>>
    ELSE LET least == CHOOSE k \in S : \A j \in S \ {k} : StrLess(k, j)
         IN  <<least>> \o Sorted(S \ {least})

-----------------------------------------------------------------------------
(* The environment: what the browser and the site may answer.              *)

EmptyDict == [k \in {} |-> None]

\* get_webdriver returns (driver, "chrome"), (driver, "firefox") or (None, None).
Browsers == {"chrome", "firefox"}

\* The values of the semester selector's options.
SemesterLists == {<<>>, <<"2024/2025-1">>}

\* re.search(r"kisaadi=([A-Z]+)", url): the group, or "UNKNOWN".
DeptCodes == {"CMPE", "UNKNOWN"}

NoWebdriverMessages ==
    {"Chrome WebDriver not available", "Firefox WebDriver not available",
     "Neither Chrome nor Firefox WebDriver could be initialized.",
     "Please ensure you have Chrome or Firefox and their drivers installed."}

-----------------------------------------------------------------------------
(* Browser sessions.                                                       *)

Acquire ==
    /\ sessions' = sessions + 1
    /\ driver' = sessions + 1
    /\ live' = live \cup {sessions + 1}
    /\ quit_count' = Append(quit_count, 0)
    /\ UNCHANGED use_after_quit

\* Any call on `driver` other than quit.
UseDriver ==
    /\ use_after_quit' = (use_after_quit \/ driver \notin live)
    /\ UNCHANGED <<driver, sessions, live, quit_count>>

\* driver.quit()
Quit ==
    /\ quit_count' = [quit_count EXCEPT ![driver] = @ + 1]
    /\ live' = live \ {driver}
    /\ use_after_quit' = (use_after_quit \/ driver \notin live)
    /\ UNCHANGED <<driver, sessions>>

NoSession == UNCHANGED <<driver, sessions, live, quit_count, use_after_quit>>

scrapeVars == <<results, last_course_key, dept_code, depts_left, rows_done,
                cur_row, new_in_dept, row_log>>

-----------------------------------------------------------------------------
(* fetch_semesters_from_website and prompt_semester.                       *)

\* Lines 259-262, no browser.
FetchNoWebdriver ==
    /\ pc = "main_start"
    /\ messages' = messages \cup NoWebdriverMessages
    /\ semesters' = <<>>
    /\ errs' = errs \cup {"fetch_no_driver"}
    /\ pc' = "prompt"
    /\ NoSession
    /\ UNCHANGED <<exc, selected_semester, scrapeVars, data, file, traceback,
                   arg, ret>>

\* Lines 259-264, a browser started.
FetchGetWebdriver ==
    /\ pc = "main_start"
    /\ \E browser \in Browsers : Acquire
    /\ pc' = "fetch_try"
    /\ UNCHANGED <<exc, semesters, selected_semester, scrapeVars, data, file,
                   messages, traceback, errs, arg, ret>>

\* Lines 266-270 run to the end.
FetchOk ==
    /\ pc = "fetch_try"
    /\ UseDriver
    /\ \E list \in SemesterLists : semesters' = list
    /\ pc' = "fetch_finally"
    /\ UNCHANGED <<exc, selected_semester, scrapeVars, data, file, messages,
                   traceback, errs, arg, ret>>

\* Lines 266-270 raise: the page does not load or the selector is not found.
FetchFail ==
    /\ pc = "fetch_try"
    /\ UseDriver
    /\ exc' = "WebDriverException"
    /\ errs' = errs \cup {"fetch_page"}
    /\ pc' = "fetch_finally"
    /\ UNCHANGED <<semesters, selected_semester, scrapeVars, data, file,
                   messages, traceback, arg, ret>>

\* Lines 271-273: finally quit; a pending exception leaves the function and,
\* uncaught in __main__ (line 307), ends the program with a traceback.
FetchFinally ==
    /\ pc = "fetch_finally"
    /\ Quit
    /\ \E quit_ok \in BOOLEAN :
         /\ exc' = IF quit_ok THEN exc ELSE "WebDriverException"
         /\ errs' = IF quit_ok THEN errs ELSE errs \cup {"quit"}
         /\ traceback' = (exc' # None)
         /\ pc' = IF exc' # None THEN "crashed" ELSE "prompt"
    /\ UNCHANGED <<semesters, selected_semester, scrapeVars, data, file,
                   messages, arg, ret>>

\* Lines 275-299 and 310-312; the input loop ends with "0" or a listed number.
PromptSemester ==
    /\ pc = "prompt"
    /\ IF semesters = <<>>
       THEN /\ messages' = messages \cup {"Could not fetch the semester list."}
            /\ selected_semester' = None
            /\ pc' = "main_end"
       ELSE \E choice \in 0..Len(semesters) :
              /\ messages' = IF choice = 0
                             THEN messages \cup {"Quitting application."}
                             ELSE messages
              /\ selected_semester' = IF choice = 0 THEN None ELSE semesters[choice]
              /\ pc' = IF choice = 0 THEN "main_end" ELSE "scrape_start"
    /\ NoSession
    /\ UNCHANGED <<exc, semesters, scrapeVars, data, file, traceback, errs,
                   arg, ret>>

-----------------------------------------------------------------------------
(* scrape_boun_schedule.                                                   *)

mainOnly == <<semesters, selected_semester, file, arg, ret>>

\* Lines 97-100, no browser: returns {}.
ScrapeNoWebdriver ==
    /\ pc = "scrape_start"
    /\ messages' = messages \cup NoWebdriverMessages
    /\ data' = Some(EmptyDict)
    /\ errs' = errs \cup {"scrape_no_driver"}
    /\ pc' = "save"
    /\ NoSession
    /\ UNCHANGED <<exc, scrapeVars, traceback, mainOnly>>

\* Lines 97-103, a browser started.
ScrapeGetWebdriver ==
    /\ pc = "scrape_start"
    /\ \E browser \in Browsers : Acquire
    /\ results' = EmptyDict
    /\ pc' = "scrape_setup"
    /\ UNCHANGED <<exc, last_course_key, dept_code, depts_left, rows_done,
                   cur_row, new_in_dept, row_log, data, messages, traceback,
                   errs, mainOnly>>

\* Lines 106-128 run to the end.  presence_of_all_elements_located answers
\* with at least one link, so there is at least one department.
ScrapeSetupOk ==
    /\ pc = "scrape_setup"
    /\ UseDriver
    /\ \E n \in 1..MaxDepts : depts_left' = n
    /\ last_course_key' = Absent
    /\ pc' = "dept_loop"
    /\ UNCHANGED <<exc, results, dept_code, rows_done, cur_row, new_in_dept,
                   row_log, data, messages, traceback, errs, mainOnly>>

\* Lines 106-124 raise (a wait times out, an element is missing).
ScrapeSetupFail ==
    /\ pc = "scrape_setup"
    /\ UseDriver
    /\ exc' = "WebDriverException"
    /\ errs' = errs \cup {"setup"}
    /\ pc' = "scrape_finally"
    /\ UNCHANGED <<scrapeVars, data, messages, traceback, mainOnly>>

\* Lines 130-131: the next url loads.
DeptNavigateOk ==
    /\ pc = "dept_loop"
    /\ depts_left > 0
    /\ UseDriver
    /\ new_in_dept' = FALSE
    /\ pc' = "dept_wait"
    /\ UNCHANGED <<exc, results, last_course_key, dept_code, depts_left,
                   rows_done, cur_row, row_log, data, messages, traceback,
                   errs, mainOnly>>

\* Line 131 raises; driver.get(url) is outside the inner try.
DeptNavigateFail ==
    /\ pc = "dept_loop"
    /\ depts_left > 0
    /\ UseDriver
    /\ exc' = "WebDriverException"
    /\ errs' = errs \cup {"navigate"}
    /\ pc' = "scrape_finally"
    /\ UNCHANGED <<scrapeVars, data, messages, traceback, mainOnly>>

\* Line 130: no url is left.
DeptLoopEnd ==
    /\ pc = "dept_loop"
    /\ depts_left = 0
    /\ pc' = "scrape_finally"
    /\ NoSession
    /\ UNCHANGED <<exc, scrapeVars, data, messages, traceback, errs, mainOnly>>

\* Lines 134-140: no table within the wait; the department is skipped.
NoTable ==
    /\ pc = "dept_wait"
    /\ UseDriver
    /\ messages' = messages \cup {"Skipping department (no table found after 3 seconds)."}
    /\ errs' = errs \cup {"no_table"}
    /\ depts_left' = depts_left - 1
    /\ pc' = "dept_loop"
    /\ UNCHANGED <<exc, results, last_course_key, dept_code, rows_done,
                   cur_row, new_in_dept, row_log, data, traceback, mainOnly>>

\* Lines 134-137: the table is there.
TableFound ==
    /\ pc = "dept_wait"
    /\ UseDriver
    /\ pc' = "dept_find_rows"
    /\ UNCHANGED <<exc, scrapeVars, data, messages, traceback, errs, mainOnly>>

\* Lines 142-146: the rows are fetched and dept_code is bound.
FindRowsOk ==
    /\ pc = "dept_find_rows"
    /\ UseDriver
    /\ \E code \in DeptCodes : dept_code' = code
    /\ pc' = "rows"
    /\ UNCHANGED <<exc, results, last_course_key, depts_left, rows_done,
                   cur_row, new_in_dept, row_log, data, messages, traceback,
                   errs, mainOnly>>

\* Line 142 raises, before dept_code is assigned for this department.
FindRowsFail ==
    /\ pc = "dept_find_rows"
    /\ UseDriver
    /\ errs' = errs \cup {"find_rows"}
    /\ pc' = "dept_except"
    /\ UNCHANGED <<exc, scrapeVars, data, messages, traceback, mainOnly>>

\* Lines 148-224: one iteration of the row loop on `row`.
RowStep(row) ==
    LET out == RowOutcome(results, last_course_key, row)
    IN  /\ pc = "rows"
        /\ UseDriver
        /\ results' = out.results
        /\ last_course_key' = out.key
        /\ cur_row' = Some(row)
        /\ rows_done' = rows_done + 1
        /\ new_in_dept' = (new_in_dept \/ IsNewRow(row))
        /\ errs' = IF out.raised THEN errs \cup {"key_error"} ELSE errs
        /\ pc' = IF out.raised THEN "dept_except" ELSE "rows"
        /\ UNCHANGED <<exc, dept_code, depts_left, data, messages, traceback,
                       mainOnly>>

ProcessRow ==
    /\ rows_done < MaxRowsTotal
    /\ \E row \in Rows : RowStep(row)
    /\ UNCHANGED row_log

\* Lines 149-218: reading a row's cells raises (the element went stale).
RowReadFail ==
    /\ pc = "rows"
    /\ UseDriver
    /\ errs' = errs \cup {"row_read"}
    /\ pc' = "dept_except"
    /\ UNCHANGED <<exc, scrapeVars, data, messages, traceback, mainOnly>>

\* Line 148: the rows are exhausted.
RowsEnd ==
    /\ pc = "rows"
    /\ depts_left' = depts_left - 1
    /\ pc' = "dept_loop"
    /\ NoSession
    /\ UNCHANGED <<exc, results, last_course_key, dept_code, rows_done,
                   cur_row, new_in_dept, row_log, data, messages, traceback,
                   errs, mainOnly>>

\* Lines 226-228: the handler formats dept_code into its message; while
\* dept_code is unbound that raises UnboundLocalError out of the handler.
DeptExcept ==
    /\ pc = "dept_except"
    /\ IF dept_code = Unbound
       THEN /\ exc' = "UnboundLocalError"
            /\ pc' = "scrape_finally"
            /\ UNCHANGED <<messages, depts_left>>
       ELSE /\ messages' = messages \cup {"Could not process department"}
            /\ depts_left' = depts_left - 1
            /\ pc' = "dept_loop"
            /\ UNCHANGED exc
    /\ NoSession
    /\ UNCHANGED <<results, last_course_key, dept_code, rows_done, cur_row,
                   new_in_dept, row_log, data, traceback, errs, mainOnly>>

\* The same without `finally`: quit is reached only when nothing was raised.
ScrapeFinally_NoFinally ==
    /\ pc = "scrape_finally"
    /\ IF exc # None
       THEN /\ NoSession
            /\ traceback' = TRUE
            /\ pc' = "crashed"
            /\ UNCHANGED <<exc, errs, data>>
       ELSE /\ Quit
            /\ traceback' = FALSE
            /\ pc' = "save"
            /\ data' = Some(results)
            /\ UNCHANGED <<exc, errs>>
    /\ UNCHANGED <<scrapeVars, messages, mainOnly>>

\* Lines 230-233: finally quit, then return results unless an exception is
\* pending; the exception is uncaught in __main__ (line 315).
ScrapeFinally ==
    /\ pc = "scrape_finally"
    /\ Quit
    /\ \E quit_ok \in BOOLEAN :
         /\ exc' = IF quit_ok THEN exc ELSE "WebDriverException"
         /\ errs' = IF quit_ok THEN errs ELSE errs \cup {"quit"}
         /\ traceback' = (exc' # None)
         /\ pc' = IF exc' # None THEN "crashed" ELSE "save"
         /\ data' = IF exc' # None THEN data ELSE Some(results)
    /\ UNCHANGED <<scrapeVars, messages, mainOnly>>

\* Lines 235-253 and 318.
SaveJson ==
    /\ pc = "save"
    /\ IF DOMAIN data[1] = {}
       THEN /\ messages' = messages \cup {"No data was scraped. JSON file will not be created."}
            /\ UNCHANGED file
       ELSE /\ messages' = messages \cup {"Successfully saved"}
            /\ file' = Some([semester |-> selected_semester,
                             keys |-> Sorted(DOMAIN data[1]),
                             content |-> data[1]])
    /\ pc' = "main_end"
    /\ NoSession
    /\ UNCHANGED <<exc, semesters, selected_semester, scrapeVars, data,
                   traceback, errs, arg, ret>>

-----------------------------------------------------------------------------

InitMain ==
    /\ pc = "main_start"
    /\ driver = 0
    /\ sessions = 0
    /\ live = {}
    /\ quit_count = <<>>
    /\ use_after_quit = FALSE
    /\ exc = None
    /\ semesters = <<>>
    /\ selected_semester = None
    /\ results = EmptyDict
    /\ last_course_key = Absent
    /\ dept_code = Unbound
    /\ depts_left = 0
    /\ rows_done = 0
    /\ cur_row = Absent
    /\ new_in_dept = FALSE
    /\ row_log = <<>>
    /\ data = Absent
    /\ file = Absent
    /\ messages = {}
    /\ traceback = FALSE
    /\ errs = {}

Init ==
    /\ InitMain
    /\ arg = <<>>
    /\ ret = Absent

Next ==
    \/ FetchNoWebdriver
    \/ FetchGetWebdriver
    \/ FetchOk
    \/ FetchFail
    \/ FetchFinally
    \/ PromptSemester
    \/ ScrapeNoWebdriver
    \/ ScrapeGetWebdriver
    \/ ScrapeSetupOk
    \/ ScrapeSetupFail
    \/ DeptNavigateOk
    \/ DeptNavigateFail
    \/ DeptLoopEnd
    \/ NoTable
    \/ TableFound
    \/ FindRowsOk
    \/ FindRowsFail
    \/ ProcessRow
    \/ RowReadFail
    \/ RowsEnd
    \/ DeptExcept
    \/ ScrapeFinally
    \/ SaveJson

Spec == Init /\ [][Next]_vars

-----------------------------------------------------------------------------
(* parse_hours and parse_days on every string over a small alphabet, up to *)
(* MaxLen characters, and on the strings of their docstrings.              *)

HourAlphabet == {"0", "1", "2", "3", "9", " ", "x"}
HoursDocExample == <<"1", "2", "3", "9", "1", "0", "1", "1">>
HoursInputs == SeqsUpTo(HourAlphabet, MaxLen) \cup {HoursDocExample}

DayAlphabet == {"T", "h", "W", "M", "F", "S", " ", "x"}
DaysDocExample == <<"W", "W", "W", "T", "h", "T", "h", "T", "h">>
DaysInputs == SeqsUpTo(DayAlphabet, MaxLen) \cup {DaysDocExample}

InitHours == InitMain /\ arg \in HoursInputs /\ ret = Absent

CallParseHours ==
    /\ ret = Absent
    /\ ret' = Some(parse_hours(arg))
    /\ UNCHANGED <<mainVars, arg>>

SpecHours == InitHours /\ [][CallParseHours]_vars

InitDays == InitMain /\ arg \in DaysInputs /\ ret = Absent

CallParseDays ==
    /\ ret = Absent
    /\ ret' = Some(parse_days(arg))
    /\ UNCHANGED <<mainVars, arg>>

SpecDays == InitDays /\ [][CallParseDays]_vars

\* The scan C9 describes, on the string as given.
RECURSIVE ScanHours(_)
ScanHours(s) ==
    IF s = <<>> THEN <<>>
    ELSE IF Len(s) >= 2 /\ s[1] = "1" /\ s[2] \in {"0", "1"}
    THEN <<SubSeq(s, 1, 2)>> \o ScanHours(SubSeq(s, 3, Len(s)))
    ELSE IF s[1] \in {"1", "2", "3", "4", "5", "6", "7", "8", "9"}
    THEN << <<s[1]>> >> \o ScanHours(Tail(s))
    ELSE ScanHours(Tail(s))

\* C9: parse_hours returns the tokens of a left-to-right scan that takes "10"
\* or "11" where the next two characters form it, else one digit 1-9, else
\* skips the character; "12391011" gives 1,2,3,9,10,11, "101" gives 10,1, and
\* an empty or whitespace-only string gives the empty list.
C9_ParseHoursScan ==
    ret # Absent =>
        /\ ret[1] = ScanHours(arg)
        /\ arg = HoursDocExample =>
             ret[1] = << <<"1">>, <<"2">>, <<"3">>, <<"9">>, <<"1", "0">>, <<"1", "1">> >>
        /\ arg = <<"1", "0", "1">> => ret[1] = << <<"1", "0">>, <<"1">> >>
        /\ (\A i \in 1..Len(arg) : arg[i] = " ") => ret[1] = <<>>

C9_Witness ==
    /\ arg = <<"1", "0", "1", "0">>
    /\ ret = Some(<< <<"1", "0">>, <<"1", "0">> >>)

\* The scan C10 describes, on the string as given.
RECURSIVE ScanDays(_)
ScanDays(s) ==
    IF s = <<>> THEN <<>>
    ELSE IF Len(s) >= 2 /\ s[1] = "T" /\ s[2] = "h"
    THEN << <<"T", "h">> >> \o ScanDays(SubSeq(s, 3, Len(s)))
    ELSE IF s[1] \in {"W", "M", "F", "T", "S"}
    THEN << <<s[1]>> >> \o ScanDays(Tail(s))
    ELSE ScanDays(Tail(s))

\* The characters of s a scan for day tokens keeps: a day letter, or the h
\* right after a T.
RECURSIVE DayCharsFrom(_, _)
DayCharsFrom(s, i) ==
    IF i > Len(s) THEN <<>>
    ELSE IF \/ s[i] \in {"W", "M", "F", "T", "S"}
            \/ (s[i] = "h" /\ i > 1 /\ s[i - 1] = "T")
    THEN <<s[i]>> \o DayCharsFrom(s, i + 1)
    ELSE DayCharsFrom(s, i + 1)

\* C10: parse_days returns the tokens of a left-to-right scan over
\* {Th, W, M, F, T, S} that takes Th wherever a T is followed by h and one
\* letter otherwise, skipping every other character; the tokens concatenated
\* are the input without the skipped characters; "WWWThThTh" gives
\* W,W,W,Th,Th,Th and "MThF" gives M,Th,F.
C10_ParseDaysScan ==
    ret # Absent =>
        /\ ret[1] = ScanDays(arg)
        /\ \A i \in 1..Len(ret[1]) : \E k \in 1..Len(DaysPattern) : ret[1][i] = DaysPattern[k]
        /\ Flatten(ret[1]) = DayCharsFrom(arg, 1)
        /\ arg = DaysDocExample =>
             ret[1] = << <<"W">>, <<"W">>, <<"W">>, <<"T", "h">>, <<"T", "h">>, <<"T", "h">> >>
        /\ arg = <<"M", "T", "h", "F">> => ret[1] = << <<"M">>, <<"T", "h">>, <<"F">> >>

C10_Witness ==
    /\ arg = <<"T", "T", "h", "x">>
    /\ ret = Some(<< <<"T">>, <<"T", "h">> >>)

-----------------------------------------------------------------------------
(* The key scenario: the row loop of one department page, fed new-course   *)
(* rows whose code, section and name cells range over small sets.          *)

KeyCodes == {<<"C">>, <<"C", " ", "C">>, <<"C", "\n", "C">>, <<" ", "C", "C">>}
KeySections == {<<>>, <<" ">>, <<"A">>, <<"B">>, <<"A", " ">>}
KeyNames == {<<"I">>, <<"L", "a", "b">>, <<"P", ".", "s", ".">>, <<"P", "S">>}

KeyRows ==
    {MkRow(10, [c0 |-> c, c1 |-> sec, c2 |-> n, c3 |-> <<"3">>, c4 |-> <<"6">>,
                c5 |-> <<>>, c6 |-> <<"D">>],
               [c7 |-> <<>>, c8 |-> <<>>, c9 |-> <<>>, spans |-> <<>>]) :
        c \in KeyCodes, sec \in KeySections, n \in KeyNames}

\* The state of a run that has reached the row loop of its first department.
InitKey ==
    /\ pc = "rows"
    /\ driver = 2
    /\ sessions = 2
    /\ live = {2}
    /\ quit_count = <<1, 0>>
    /\ use_after_quit = FALSE
    /\ exc = None
    /\ semesters = <<"2024/2025-1">>
    /\ selected_semester = "2024/2025-1"
    /\ results = EmptyDict
    /\ last_course_key = Absent
    /\ dept_code = "CMPE"
    /\ depts_left = 1
    /\ rows_done = 0
    /\ cur_row = Absent
    /\ new_in_dept = FALSE
    /\ row_log = <<>>
    /\ data = Absent
    /\ file = Absent
    /\ messages = {}
    /\ traceback = FALSE
    /\ errs = {}
    /\ arg = <<>>
    /\ ret = Absent

KeyRow ==
    /\ Len(row_log) < MaxKeyRows
    /\ \E row \in KeyRows :
         /\ RowStep(row)
         /\ row_log' = Append(row_log, [row |-> row, key |-> last_course_key'])

SpecKey == InitKey /\ [][KeyRow]_vars

-----------------------------------------------------------------------------
(* Claims.                                                                 *)

ListOf(rec, f) == IF f \in DOMAIN rec THEN rec[f] ELSE <<>>
IsPrefix(a, b) == Len(a) <= Len(b) /\ SubSeq(b, 1, Len(a)) = a
HasText(x) == Strip(x) # <<>>

\* C1: a row with at least 10 cells and an empty cell[0], met while a current
\* record exists, appends parse_days(cell[7]) to the record's days when
\* cell[7] has text and parse_hours(cell[8]) to its hours when cell[8] has
\* text, whatever optional fields the record has; it raises nothing and the
\* row loop goes on.
C1_ContinuationAppends ==
    [][ ( /\ rows_done' = rows_done + 1
          /\ IsBlankRow(cur_row'[1])
          /\ last_course_key \in DOMAIN results )
        =>
        LET row == cur_row'[1]
            before == results[last_course_key]
            after == results'[last_course_key]
        IN  /\ HasText(row.c7) =>
                ListOf(after, "days") = ListOf(before, "days") \o parse_days(row.c7)
            /\ HasText(row.c8) =>
                ListOf(after, "hours") = ListOf(before, "hours") \o parse_hours(row.c8)
            /\ pc' = "rows" ]_vars

\* C2: the current-record pointer is reset at the start of each department
\* page: a row with an empty cell[0] that comes before any row with a
\* non-empty cell[0] of its page is dropped and changes no record, also when
\* an earlier page created records.
C2_PointerResetPerDepartment ==
    [][ ( /\ rows_done' = rows_done + 1
          /\ IsBlankRow(cur_row'[1])
          /\ ~new_in_dept )
        => results' = results ]_vars

NoSpanText(row) == \A i \in 1..Len(row.spans) : ~HasText(row.spans[i])

\* C3: every record of results has a non-empty rooms list; a new record whose
\* rooms cell has no text and no child with text gets exactly ["N/A"], one
\* whose text contains "Online" gets ["Online"]; a continuation row in the
\* fallback case appends nothing.
C3_RoomsAlwaysProduced ==
    [][ rows_done' = rows_done + 1 =>
        LET row == cur_row'[1]
        IN  /\ \A k \in DOMAIN results' :
                 "rooms" \in DOMAIN results'[k] /\ results'[k].rooms # <<>>
            /\ (IsNewRow(row) /\ ~HasText(row.c9) /\ NoSpanText(row)) =>
                 results'[last_course_key'].rooms = <<NA>>
            /\ (IsNewRow(row) /\ Contains(Strip(row.c9), Online)) =>
                 results'[last_course_key'].rooms = <<Online>>
            /\ ( /\ IsBlankRow(row) /\ last_course_key \in DOMAIN results
                 /\ ~HasText(row.c9) /\ NoSpanText(row)
                 /\ pc' = "rows" ) =>
                 results'[last_course_key].rooms = results[last_course_key].rooms ]_vars

SameField(a, b, f) ==
    /\ (f \in DOMAIN a) = (f \in DOMAIN b)
    /\ f \in DOMAIN a => a[f] = b[f]

\* C4: a record, once in results under a key, stays: its code, name, credits,
\* ects, instructor and requiredForDept never change, its days, hours and
\* rooms only grow by appends, and no later row discards or overwrites it.
C4_RecordCreatedOnce ==
    [][ \A k \in DOMAIN results :
          /\ k \in DOMAIN results'
          /\ \A f \in {"code", "name", "credits", "ects", "instructor", "requiredForDept"} :
               SameField(results[k], results'[k], f)
          /\ \A f \in {"days", "hours", "rooms"} :
               IsPrefix(ListOf(results[k], f), ListOf(results'[k], f)) ]_vars

FatalScrapeErrors == {"setup", "navigate", "quit"}

\* C5: an error on a department page after navigation (no table, fetching the
\* rows, reading a cell, processing a row) is caught and logged, leaves the
\* records in results as they are, and the loop goes on with the next
\* department, also on the first department; scrape_boun_schedule still
\* returns the results collected.
C5_DeptFailuresContained ==
    [][ /\ pc = "dept_except" =>
             /\ pc' = "dept_loop"
             /\ depts_left' = depts_left - 1
             /\ results' = results
             /\ "Could not process department" \in messages'
        /\ (pc = "dept_wait" /\ "no_table" \in errs') =>
             /\ pc' = "dept_loop"
             /\ depts_left' = depts_left - 1
             /\ results' = results
        /\ (pc = "scrape_finally" /\ errs' \cap FatalScrapeErrors = {}) =>
             /\ pc' = "save"
             /\ data' = Some(results) ]_vars

ScrapePcs ==
    {"scrape_start", "scrape_setup", "dept_loop", "dept_wait", "dept_find_rows",
     "rows", "dept_except", "scrape_finally", "save"}

\* C6: when the semester list cannot be fetched (the page load or the lookup
\* of the selector fails after a session was acquired) or no session can be
\* acquired, the run ends without scraping and without writing a file, and
\* the failure is reported as a plain message, not as an uncaught exception
\* with a stack trace.
C6_FetchFailureIsPlainMessage ==
    (errs \cap {"fetch_no_driver", "fetch_page"} # {} /\ "quit" \notin errs) =>
        /\ pc \notin ScrapePcs
        /\ data = Absent
        /\ file = Absent
        /\ ~traceback
        /\ pc \in {"main_end", "crashed"} =>
             "Could not fetch the semester list." \in messages
        /\ "fetch_no_driver" \in errs =>
             "Neither Chrome nor Firefox WebDriver could be initialized." \in messages

HoldingPcs ==
    {"fetch_try", "fetch_finally", "scrape_setup", "dept_loop", "dept_wait",
     "dept_find_rows", "rows", "dept_except", "scrape_finally"}

\* C7: every session acquired in fetch_semesters_from_website or
\* scrape_boun_schedule is quit exactly once before the procedure returns or
\* raises, on every path; no operation is issued on a session already quit;
\* two sessions are never live at once.
C7_SessionReleased ==
    /\ Cardinality(live) <= 1
    /\ ~use_after_quit
    /\ \A n \in 1..sessions :
         /\ quit_count[n] <= 1
         /\ (n \in live) = (quit_count[n] = 0)
    /\ pc \in HoldingPcs => live = {driver}
    /\ pc \notin HoldingPcs =>
         /\ live = {}
         /\ \A n \in 1..sessions : quit_count[n] = 1

C7_Witness ==
    /\ pc = "crashed"
    /\ exc = "UnboundLocalError"
    /\ sessions = 2
    /\ quit_count = <<1, 1>>
    /\ live = {}

IsNotWhitespace(c) == ~IsWhitespace(c)
RemoveWhitespace(s) == SelectSeq(s, IsNotWhitespace)

ContainsIgnoreCase(s, sub) ==
    \E i \in 1..(Len(s) - Len(sub) + 1) :
        Upper(SubSeq(s, i, i + Len(sub) - 1)) = Upper(sub)

HasLabMarker(name) ==
    \/ ContainsIgnoreCase(name, <<"L", "A", "B">>)
    \/ ContainsIgnoreCase(name, <<"P", ".", "S", ".">>)

StripAndReplaceSpaces(s) == ReplaceSpaces(Strip(s))

\* The two readings of "whitespace removed".
Norm(reading, s) ==
    IF reading = "all whitespace" THEN RemoveWhitespace(s)
    ELSE StripAndReplaceSpaces(s)

\* The key of a row under a reading.
KeyAsClaimed(reading, row) ==
    IF HasLabMarker(row.c2) /\ Norm(reading, row.c1) # <<>>
    THEN Norm(reading, row.c0) \o <<".">> \o Norm(reading, row.c1)
    ELSE Norm(reading, row.c0)

KeysAsClaimed(reading) ==
    /\ \A i \in 1..Len(row_log) :
         row_log[i].key = KeyAsClaimed(reading, row_log[i].row)
    /\ \A i \in 1..Len(row_log) : \A j \in 1..Len(row_log) :
         LET a == row_log[i]
             b == row_log[j]
         IN  ( /\ Strip(a.row.c0) = Strip(b.row.c0)
               /\ HasLabMarker(a.row.c2) /\ HasLabMarker(b.row.c2)
               /\ Norm(reading, a.row.c1) # <<>> /\ Norm(reading, b.row.c1) # <<>>
               /\ Norm(reading, a.row.c1) # Norm(reading, b.row.c1) )
             =>
             /\ a.key # b.key
             /\ a.key \in DOMAIN results /\ b.key \in DOMAIN results

\* C8 as claimed: the key of a new-record row is the course code with its
\* whitespace removed, and base.section exactly when the name contains "LAB"
\* or "P.S." in any case and the section with its whitespace removed is not
\* empty; two rows of one code with a marker and different normalised
\* sections give two keys and two records.
C8_KeyWhitespaceRemoved == KeysAsClaimed("all whitespace")

\* C8 as amended: the same with "whitespace removed" read as: leading and
\* trailing whitespace stripped and every space character removed (a newline
\* or tab inside the text is kept).
C8_KeySpacesRemoved == KeysAsClaimed("spaces only")

C8_Witness ==
    /\ Len(row_log) = 2
    /\ row_log[1].key = <<"C", "\n", "C", ".", "A">>
    /\ row_log[2].key = <<"C", "\n", "C", ".", "B">>
    /\ DOMAIN results = {row_log[1].key, row_log[2].key}

====
